---- MODULE Spec2Model ----
(***************************************************************************)
(* Model of Stock.fetch_stock_data and Stock.fetch_multiple_stocks         *)
(* (src/app/stocks.py): one call of fetch_multiple_stocks(tickers,         *)
(* max_attempts), the worker pool it opens per attempt, the tasks of the   *)
(* pool, and the retry loop around the pool.                               *)
(*                                                                         *)
(* The environment is the market-data provider (what one fetch meets) and  *)
(* the pool infrastructure, which may raise an Exception while the pool is *)
(* constructed (line 54), while a task is submitted (line 55) or while the *)
(* coordinator collects results (lines 57-61).                             *)
(***************************************************************************)
EXTENDS Integers, Sequences, FiniteSets

\* ---------------------------------------------------------------- bounds
Symbols == {"A", "B"}
MaxTickers == 2
MaxAttemptsBound == 3

\* ------------------------------------------------------ program constants
max_workers == 10
RetryDelay == 5

VARIABLES
    tickers,        \* parameter: the input ticker list
    max_attempts,   \* parameter
    pc,             \* position of the coordinating thread
    attempt,        \* number of batch attempts started (loop index + 1)
    submitted,      \* futures submitted so far in the current attempt
    task,           \* <<attempt, index>> -> task of a pool: state, what the
                    \* provider did, outcome stored in the future
    collected,      \* futures as_completed has yielded in the current attempt
    stock_data,     \* the local dict of line 50
    raised,         \* the with block is being left by an exception
    errors,         \* batch-level errors the pool infrastructure has raised
    failures,       \* times the except clause of line 63 has run
    elapsed,        \* time units spent in time.sleep
    result,         \* the returned mapping
    exit_path,      \* "none", "attempt" (line 62) or "exhausted" (line 66)
    fetched_absent  \* some fetch_stock_data of this call has returned None

vars == <<tickers, max_attempts, pc, attempt, submitted, task, collected,
          stock_data, raised, errors, failures, elapsed, result, exit_path,
          fetched_absent>>

\* ------------------------------------------------------------ data values
EmptyMap == [t \in {} |-> 0]

\* The DataFrame a fetch returns; `fetched_in` tells the frames of two
\* attempts apart.
Frame(ticker, stamp) == [ticker |-> ticker, fetched_in |-> stamp]

None == [ticker |-> "None", fetched_in |-> 0]

Return(v) == [kind |-> "return", val |-> v]

Raise == [kind |-> "raise", val |-> None]

\* What one fetch meets: the provider returns rows, returns no rows (an
\* unknown or delisted symbol), raises (a network or provider error, an
\* unknown symbol), or returns rows on which an indicator computation raises.
ProviderBehaviours == {"rows", "empty", "provider_error", "indicator_error"}

Range(s) == {s[i] : i \in 1..Len(s)}

TickerLists == UNION {[1..n -> Symbols] : n \in 0..MaxTickers}

Min(a, b) == IF a < b THEN a ELSE b

\* ------------------------------------------------------- fetch_stock_data
\* The body of the try block, lines 26-37.
fetch_try_body(ticker, env, stamp) ==
    IF env = "provider_error" THEN Raise
    ELSE IF env = "empty" THEN Return(None)
    ELSE IF env = "indicator_error" THEN Raise
    ELSE Return(Frame(ticker, stamp))

\* fetch_stock_data without its except clause.
fetch_stock_data_unguarded(ticker, env, stamp) ==
    fetch_try_body(ticker, env, stamp)

\* Lines 25-39: except Exception: return None.
fetch_stock_data(ticker, env, stamp) ==
    LET r == fetch_try_body(ticker, env, stamp)
    IN  IF r.kind = "raise" THEN Return(None) ELSE r

\* ------------------------------------------------- fetch_multiple_stocks
\* The key a result is stored under when the instance's own ticker string
\* is used in place of the future's ticker.
future_to_ticker_self(f) == "self.ticker"

\* Lines 55 and 58: the ticker the future was submitted for.
future_to_ticker(f) == tickers[f]

Put(sd, t, d) == [x \in (DOMAIN sd) \cup {t} |-> IF x = t THEN d ELSE sd[x]]

\* Recording without the test of line 60.
RecordAlways(sd, t, data) == Put(sd, t, data)

\* Lines 60-61: if data is not None: stock_data[ticker] = data.
Record(sd, t, data) == IF data # None THEN Put(sd, t, data) ELSE sd

\* The loop of line 57 left after the first future.
FirstCompleted(c, n) == n = 0 \/ c # {}

\* Line 57: as_completed is exhausted once it has yielded every future.
AllCompleted(c, n) == c = 1..n

InFlight(tk) == {k \in DOMAIN tk : tk[k].st \in {"pending", "running"}}

\* Leaving the with block without waiting: shutdown(wait=False).
ShutdownNoWait(tk, a) == TRUE

\* Line 54, leaving the with block: shutdown(wait=True) waits for every
\* task submitted to this attempt's pool.
ShutdownComplete(tk, a) == \A k \in DOMAIN tk : k[1] = a => tk[k].st = "done"

\* A pause that grows with the attempt number.
RetryWaitLinear(a) == RetryDelay * a

\* Line 64: time.sleep(5).
RetryWait(a) == RetryDelay

\* One attempt too many: range(max_attempts + 1).
HasNextAttemptInclusive(a, m) == a <= m

\* Line 52: for attempt in range(max_attempts).
HasNextAttempt(a, m) == a < m

\* Returning the local dict after the loop.
ExhaustedResultPartial(sd) == sd

\* Line 66: return {}.
ExhaustedResult(sd) == EmptyMap

\* ------------------------------------------------------------------ Init
Init ==
    /\ tickers \in TickerLists
    /\ max_attempts \in 0..MaxAttemptsBound
    /\ pc = "loop"
    /\ attempt = 0
    /\ submitted = 0
    /\ task = [k \in {} |-> 0]
    /\ collected = {}
    /\ stock_data = EmptyMap
    /\ raised = FALSE
    /\ errors = 0
    /\ failures = 0
    /\ elapsed = 0
    /\ result = EmptyMap
    /\ exit_path = "none"
    /\ fetched_absent = FALSE

\* The pool and the futures of the attempt before are unreachable once the
\* next attempt opens its own: only tasks still in flight remain.
Forgotten(tk) == [k \in InFlight(tk) |-> tk[k]]

\* Lines 52-54: the loop takes its next index and the pool is constructed.
StartAttempt ==
    /\ pc = "loop"
    /\ HasNextAttempt(attempt, max_attempts)
    /\ attempt' = attempt + 1
    /\ submitted' = 0
    /\ collected' = {}
    /\ task' = Forgotten(task)
    /\ raised' = FALSE
    /\ pc' = "submit"
    /\ UNCHANGED <<tickers, max_attempts, stock_data, errors, failures,
                   elapsed, result, exit_path, fetched_absent>>

\* Lines 52-54, 63: the loop takes its next index and constructing the pool
\* raises; no with block was entered.
PoolFail ==
    /\ pc = "loop"
    /\ HasNextAttempt(attempt, max_attempts)
    /\ attempt' = attempt + 1
    /\ submitted' = 0
    /\ collected' = {}
    /\ task' = Forgotten(task)
    /\ errors' = errors + 1
    /\ raised' = TRUE
    /\ pc' = "except"
    /\ UNCHANGED <<tickers, max_attempts, stock_data, failures, elapsed,
                   result, exit_path, fetched_absent>>

\* Line 55: executor.submit for the next ticker of the list.
Submit ==
    /\ pc = "submit"
    /\ submitted < Len(tickers)
    /\ submitted' = submitted + 1
    /\ task' = [k \in (DOMAIN task) \cup {<<attempt, submitted + 1>>} |->
                 IF k = <<attempt, submitted + 1>>
                 THEN [st |-> "pending", env |-> "-", out |-> Return(None)]
                 ELSE task[k]]
    /\ UNCHANGED <<tickers, max_attempts, pc, attempt, collected, stock_data,
                   raised, errors, failures, elapsed, result, exit_path, fetched_absent>>

\* Line 55: executor.submit raises; the with block is left by the exception.
SubmitFail ==
    /\ pc = "submit"
    /\ submitted < Len(tickers)
    /\ errors' = errors + 1
    /\ raised' = TRUE
    /\ pc' = "exit"
    /\ UNCHANGED <<tickers, max_attempts, attempt, submitted, task, collected,
                   stock_data, failures, elapsed, result, exit_path, fetched_absent>>

\* Lines 55-57: the comprehension is complete, as_completed is entered.
BeginCollect ==
    /\ pc = "submit"
    /\ submitted = Len(tickers)
    /\ pc' = "collect"
    /\ UNCHANGED <<tickers, max_attempts, attempt, submitted, task, collected,
                   stock_data, raised, errors, failures, elapsed, result,
                   exit_path, fetched_absent>>

\* Line 54: a worker of the task's pool takes a pending task; a pool runs at
\* most max_workers tasks at a time.
TaskStart(k) ==
    /\ k \in DOMAIN task
    /\ task[k].st = "pending"
    /\ Cardinality({j \in DOMAIN task :
                      j[1] = k[1] /\ task[j].st = "running"}) < max_workers
    /\ task' = [task EXCEPT ![k].st = "running"]
    /\ UNCHANGED <<tickers, max_attempts, pc, attempt, submitted, collected,
                   stock_data, raised, errors, failures, elapsed, result,
                   exit_path, fetched_absent>>

\* Lines 18-39 run in a worker: the task ends and its future holds what
\* fetch_stock_data returned or raised.
TaskFinish(k, env) ==
    /\ k \in DOMAIN task
    /\ task[k].st = "running"
    /\ task' = [task EXCEPT ![k] =
                 [st |-> "done", env |-> env,
                  out |-> fetch_stock_data(tickers[k[2]], env, k[1])]]
    /\ fetched_absent' =
         (fetched_absent \/ fetch_stock_data(tickers[k[2]], env, k[1]).val = None)
    /\ UNCHANGED <<tickers, max_attempts, pc, attempt, submitted, collected,
                   stock_data, raised, errors, failures, elapsed, result,
                   exit_path>>

\* Lines 57-61: as_completed yields a finished future not yet yielded;
\* future.result() returns the task's value or re-raises its exception.
Collect(f) ==
    /\ pc = "collect"
    /\ f \in 1..submitted
    /\ f \notin collected
    /\ task[<<attempt, f>>].st = "done"
    /\ LET out == task[<<attempt, f>>].out
       IN  IF out.kind = "raise"
           THEN /\ raised' = TRUE
                /\ pc' = "exit"
                /\ UNCHANGED <<collected, stock_data>>
           ELSE /\ collected' = collected \cup {f}
                /\ stock_data' = Record(stock_data, future_to_ticker(f), out.val)
                /\ UNCHANGED <<raised, pc>>
    /\ UNCHANGED <<tickers, max_attempts, attempt, submitted, task, errors,
                   failures, elapsed, result, exit_path, fetched_absent>>

\* Lines 57-61, 63: an Exception of the infrastructure surfaces in the
\* coordinating thread while it collects.
CollectFail ==
    /\ pc = "collect"
    /\ errors' = errors + 1
    /\ raised' = TRUE
    /\ pc' = "exit"
    /\ UNCHANGED <<tickers, max_attempts, attempt, submitted, task, collected,
                   stock_data, failures, elapsed, result, exit_path, fetched_absent>>

\* Line 57: the for loop ends.
EndCollect ==
    /\ pc = "collect"
    /\ AllCompleted(collected, submitted)
    /\ pc' = "exit"
    /\ UNCHANGED <<tickers, max_attempts, attempt, submitted, task, collected,
                   stock_data, raised, errors, failures, elapsed, result,
                   exit_path, fetched_absent>>

\* Line 54, __exit__ of the with block, then line 62 or line 63.
ExitPool ==
    /\ pc = "exit"
    /\ ShutdownComplete(task, attempt)
    /\ pc' = IF raised THEN "except" ELSE "return"
    /\ UNCHANGED <<tickers, max_attempts, attempt, submitted, task, collected,
                   stock_data, raised, errors, failures, elapsed, result,
                   exit_path, fetched_absent>>

\* Line 62: return stock_data.
ReturnData ==
    /\ pc = "return"
    /\ result' = stock_data
    /\ exit_path' = "attempt"
    /\ pc' = "done"
    /\ UNCHANGED <<tickers, max_attempts, attempt, submitted, task, collected,
                   stock_data, raised, errors, failures, elapsed,
                   fetched_absent>>

\* Lines 63-64: the exception is caught, the coordinator sleeps, and the
\* loop goes to its next index.
Sleep ==
    /\ pc = "except"
    /\ failures' = failures + 1
    /\ elapsed' = elapsed + RetryWait(attempt)
    /\ raised' = FALSE
    /\ pc' = "loop"
    /\ UNCHANGED <<tickers, max_attempts, attempt, submitted, task, collected,
                   stock_data, errors, result, exit_path, fetched_absent>>

\* Lines 52, 66: the range is exhausted.
ReturnEmpty ==
    /\ pc = "loop"
    /\ ~HasNextAttempt(attempt, max_attempts)
    /\ result' = ExhaustedResult(stock_data)
    /\ exit_path' = "exhausted"
    /\ pc' = "done"
    /\ UNCHANGED <<tickers, max_attempts, attempt, submitted, task, collected,
                   stock_data, raised, errors, failures, elapsed,
                   fetched_absent>>

Next ==
    \/ StartAttempt
    \/ PoolFail
    \/ Submit
    \/ SubmitFail
    \/ BeginCollect
    \/ \E k \in DOMAIN task : TaskStart(k)
    \/ \E k \in DOMAIN task : \E env \in ProviderBehaviours : TaskFinish(k, env)
    \/ \E f \in 1..submitted : Collect(f)
    \/ CollectFail
    \/ EndCollect
    \/ ExitPool
    \/ ReturnData
    \/ Sleep
    \/ ReturnEmpty

Spec == Init /\ [][Next]_vars


\* ---------------------------------------------------------------- claims
\* The futures of the current attempt, and those whose fetch produced data.
Futures == 1..submitted

ProducedData(f) == task[<<attempt, f>>].out.val # None

Returned == pc = "done"

ReturnedFromAttempt == pc = "done" /\ exit_path = "attempt"

\* C1: when the call returns from an attempt that completed normally, a
\* ticker is a key of the result iff one of its fetches produced data in that
\* attempt, and the data under each key was fetched in that attempt: nothing
\* recorded by an earlier, failed attempt is in the result.
C1_OnlyCompletingAttempt ==
    ReturnedFromAttempt =>
        \A t \in Symbols :
            /\ t \in DOMAIN result <=>
                   \E f \in Futures : tickers[f] = t /\ ProducedData(f)
            /\ t \in DOMAIN result => result[t].fetched_in = attempt

\* C2: the key set of the returned mapping is a subset of the input tickers.
C2_KeysSubsetOfInput ==
    /\ DOMAIN stock_data \subseteq Range(tickers)
    /\ Returned => DOMAIN result \subseteq Range(tickers)

C2_Witness ==
    /\ Returned
    /\ errors >= 1
    /\ Len(tickers) = 2
    /\ DOMAIN result # {}
    /\ DOMAIN result # Range(tickers)

AllFetchesAbsent ==
    \A k \in DOMAIN task : task[k].st = "done" /\ task[k].out.val = None

NoRetryNoDelay ==
    /\ result = EmptyMap
    /\ attempt = 1
    /\ failures = 0
    /\ elapsed = 0

\* C3 as stated: whenever every individual fetch returned absent and no
\* batch-level error was raised, the call returns the empty mapping after
\* exactly one batch attempt, without a retry and without a delay.
C3_AllAbsentOneAttempt ==
    (Returned /\ errors = 0 /\ AllFetchesAbsent) => NoRetryNoDelay

\* C3 amended: the same for max_attempts >= 1 (with max_attempts = 0 the call
\* makes no attempt at all).
C3_AllAbsentOneAttemptAmended ==
    (Returned /\ max_attempts >= 1 /\ errors = 0 /\ AllFetchesAbsent)
        => NoRetryNoDelay

C3_Witness ==
    /\ Returned
    /\ max_attempts >= 2
    /\ errors = 0
    /\ Len(tickers) = 2
    /\ AllFetchesAbsent
    /\ exit_path = "attempt"
    /\ result = EmptyMap

\* C4 as stated: whenever every individual fetch succeeded, the key set of
\* the returned mapping is the set of input tickers, duplicates collapsed.
C4_AllSucceedAllKeys ==
    (Returned /\ ~fetched_absent) => DOMAIN result = Range(tickers)

\* C4 amended: the same when the call returns from a batch attempt that
\* completed normally (not with max_attempts = 0, and not after every
\* attempt raised a batch-level error).
C4_AllSucceedAllKeysAmended ==
    (ReturnedFromAttempt /\ ~fetched_absent) => DOMAIN result = Range(tickers)

C4_Witness ==
    /\ ReturnedFromAttempt
    /\ ~fetched_absent
    /\ Len(tickers) = 2
    /\ tickers[1] = tickers[2]
    /\ DOMAIN result = {tickers[1]}

\* C5: if every one of the max_attempts >= 1 attempts raised a batch-level
\* error, the call returns the empty mapping, not the partial results of the
\* failed attempts.
C5_ExhaustedReturnsEmpty ==
    (Returned /\ max_attempts >= 1 /\ errors = max_attempts) =>
        (exit_path = "exhausted" /\ result = EmptyMap)

C5_Witness ==
    /\ Returned
    /\ max_attempts >= 2
    /\ errors = max_attempts
    /\ stock_data # EmptyMap
    /\ result = EmptyMap

\* C6: when the first k attempts raised a batch-level error and attempt k+1
\* completed normally, exactly k delays of RetryDelay time units have elapsed
\* when the call returns.
C6_DelaysBeforeSuccess ==
    (ReturnedFromAttempt /\ attempt = errors + 1) =>
        (failures = errors /\ elapsed = RetryDelay * errors)

C6_Witness ==
    /\ ReturnedFromAttempt
    /\ attempt = 3
    /\ errors = 2
    /\ elapsed = 2 * RetryDelay

\* C7: a finished fetch_stock_data task has returned, never raised, and has
\* returned absent for every failure cause; the with block is left by an
\* exception, and the except clause runs, only for an error of the pool
\* infrastructure.
C7_FetchNeverRaises ==
    /\ \A k \in DOMAIN task :
           task[k].st = "done" =>
               /\ task[k].out.kind = "return"
               /\ task[k].env # "rows" => task[k].out.val = None
    /\ errors = failures + (IF raised THEN 1 ELSE 0)
    /\ attempt <= errors + 1

C7_Witness ==
    /\ ReturnedFromAttempt
    /\ errors = 0
    /\ Len(tickers) = 2
    /\ {task[k].env : k \in DOMAIN task} = {"indicator_error", "provider_error"}
    /\ result = EmptyMap

\* C8: a task is pending or running only while the coordinator is inside the
\* with block of the attempt that submitted it: not after the return, not in
\* the except clause or the delay, and not once the next attempt has started.
C8_TasksCompleteBeforeProceeding ==
    \A k \in InFlight(task) :
        /\ k[1] = attempt
        /\ pc \in {"submit", "collect", "exit"}

C8_Witness ==
    /\ pc = "exit"
    /\ raised
    /\ attempt >= 2
    /\ Cardinality(InFlight(task)) = 2

\* C9: every delay is followed by another batch attempt, so a call that made
\* n >= 1 attempts has taken exactly n - 1 delays when it returns.
C9_DelaysBetweenAttempts ==
    (Returned /\ attempt >= 1) =>
        (failures = attempt - 1 /\ elapsed = RetryDelay * (attempt - 1))

\* Steps a future of the current attempt still has to take: submit, start,
\* finish, be collected.
TaskLeft(f) ==
    IF <<attempt, f>> \notin DOMAIN task THEN 4
    ELSE IF task[<<attempt, f>>].st = "pending" THEN 3
    ELSE IF task[<<attempt, f>>].st = "running" THEN 2
    ELSE IF f \notin collected THEN 1
    ELSE 0

RECURSIVE SumTaskLeft(_)
SumTaskLeft(n) == IF n = 0 THEN 0 ELSE TaskLeft(n) + SumTaskLeft(n - 1)

PcLeft ==
    CASE pc = "submit" -> 6
      [] pc = "collect" -> 5
      [] pc = "exit" -> 4
      [] pc = "except" -> 3
      [] pc = "loop" -> 2
      [] pc = "return" -> 1
      [] pc = "done" -> 0

\* An upper bound on the steps the call can still take.
Variant ==
    (max_attempts - attempt) * (4 * Len(tickers) + 5)
    + PcLeft
    + (IF pc \in {"submit", "collect", "exit"}
       THEN SumTaskLeft(Len(tickers)) ELSE 0)

\* C10: the call terminates: until it has returned some thread can take a
\* step, and every step lowers the bound Variant >= 0 on the steps left. It
\* never starts more than max_attempts attempts, and starts one only after
\* the previous one raised a batch-level error, so on return the number of
\* attempts is min(max_attempts, failed attempts + 1); with max_attempts = 0
\* it makes no attempt and returns the empty mapping.
C10_TerminatesWithinMaxAttempts ==
    /\ [](Returned \/ ENABLED Next)
    /\ [](Variant >= 0)
    /\ [][Variant' < Variant]_vars
    /\ [](attempt <= max_attempts /\ attempt <= errors + 1)
    /\ [](Returned => attempt = Min(max_attempts, errors + 1))
    /\ [](Returned /\ max_attempts = 0 =>
              attempt = 0 /\ DOMAIN task = {} /\ result = EmptyMap)

C10_Witness ==
    /\ Returned
    /\ max_attempts >= 2
    /\ attempt = max_attempts
    /\ errors = max_attempts

====
